---- MODULE Spec2Model ----
(***************************************************************************)
(* Voice-enabled chat session of the insurance assistant: the chat page    *)
(* (ChatbotPage / ChatbotWidget: transcript, single-flight flag, backend   *)
(* calls, the React render and passive-effect steps that touch the flag)   *)
(* and the useVoiceChat hook driving a browser SpeechRecognition object.   *)
(*                                                                         *)
(* Texts are sequences of one-character strings so that String.trim() is   *)
(* computed, not assumed.                                                  *)
(***************************************************************************)
EXTENDS Naturals, Sequences, FiniteSets

\* ---------------------------------------------------------------- bounds
MaxCalls == 3        \* backend calls issued in one behaviour
MaxHandles == 2      \* SpeechRecognition objects created in one behaviour
MaxPrior == 2        \* entries after the greeting when the first note arrives
MaxTranscript == 5   \* entries of a transcript that notes are appended to

\* ---------------------------------------------------------------- values
\* What the user can have typed into the input field.
Texts == {<<" ">>, <<" ", "a", " ">>}

\* JavaScript's undefined and null: equal to no text and to no list of sources.
Undefined == <<"undefined">>

Null == <<"null">>

Greeting == <<"Hello! I'm your insurance assistant.">>

FallbackText == <<"Sorry, I encountered an error. Please try again.">>

SessionIds == {"session-1"}

\* Bodies the backend can answer with (ChatMessage, or something else).
GoodPayloads ==
    {[response |-> r, sources |-> s] : r \in {<<"r">>}, s \in {<<"s">>}}

MalformedPayload == [response |-> Undefined, sources |-> Undefined]

Payloads == GoodPayloads \cup {MalformedPayload}

\* ---------------------------------------------------------------- state
VARIABLES
    messages,        \* ChatbotPage: the transcript (useState)
    input,           \* ChatbotPage: the input field (useState)
    loading,         \* ChatbotPage: loading state, all queued updates applied
    loadingRendered, \* the value of loading in the last committed render
    pendingEffects,  \* passive effects of committed renders not yet run
    loadingRef,      \* ChatbotPage: loadingRef.current, the single-flight flag
    sessionId,       \* ChatbotPage: sessionId (useState initialiser)
    isOpen,          \* ChatbotWidget: isOpen; the chat page is always shown
    requests,        \* every POST /chatbot/chat issued so far, in order
    inflight,        \* indexes of requests whose promise has not settled
    status,          \* useVoiceChat: status
    isRecording,     \* useVoiceChat: isRecording
    error,           \* useVoiceChat: error
    recognitionRef,  \* useVoiceChat: recognitionRef.current (0 is null)
    isRecordingRef,  \* useVoiceChat: isRecordingRef.current
    supported,       \* whether window has a SpeechRecognition class
    handles,         \* number of SpeechRecognition objects created
    attached,        \* per object: are the hook's four callbacks set
    platform,        \* per object: the browser's recognition session
    lastEvent        \* the handler that ran last, where a property needs to know it

pageVars == <<messages, input, loading, loadingRendered, pendingEffects,
              loadingRef, sessionId, isOpen, requests, inflight>>

voiceVars == <<status, isRecording, error, recognitionRef, isRecordingRef,
               supported, handles, attached, platform>>

vars == <<pageVars, voiceVars, lastEvent>>

\* ---------------------------------------------------------------- helpers
RECURSIVE trimStart(_)
trimStart(s) ==
    IF s = <<>> THEN s
    ELSE IF Head(s) = " " THEN trimStart(Tail(s)) ELSE s

RECURSIVE trimEnd(_)
trimEnd(s) ==
    IF s = <<>> THEN s
    ELSE IF s[Len(s)] = " " THEN trimEnd(SubSeq(s, 1, Len(s) - 1)) ELSE s

trim(s) == trimEnd(trimStart(s))

\* lastEvent after sendMessage and after appendAssistantNote (the call and
\* its argument), and after any other handler (NoEvent).
Event(op, text) == [op |-> op, text |-> text]

NoEvent == Event("none", <<>>)

\* appendMessage putting the new entry first instead of last.
appendMessagePrepend(prev, role, content) ==
    IF /\ Len(prev) > 0
       /\ prev[Len(prev)].role = role
       /\ prev[Len(prev)].content = content
    THEN prev
    ELSE <<[role |-> role, content |-> content, sources |-> Undefined]>> \o prev

\* appendMessage without its adjacent-duplicate guard.
appendMessageNoGuard(prev, role, content) ==
    Append(prev, [role |-> role, content |-> content, sources |-> Undefined])

\* setMessages updater of appendMessage, applied to the previous transcript.
appendMessage(prev, role, content) ==
    IF /\ Len(prev) > 0
       /\ prev[Len(prev)].role = role
       /\ prev[Len(prev)].content = content
    THEN prev
    ELSE Append(prev, [role |-> role, content |-> content, sources |-> Undefined])

\* ---------------------------------------------------------------- Init
Init ==
    /\ messages = <<[role |-> "assistant", content |-> Greeting, sources |-> Undefined]>>
    /\ input = <<>>
    /\ loading = FALSE
    /\ loadingRendered = FALSE
    /\ pendingEffects = <<>>
    /\ loadingRef = FALSE
    /\ sessionId \in SessionIds
    /\ isOpen = TRUE
    /\ requests = <<>>
    /\ inflight = {}
    /\ status = "idle"
    /\ isRecording = FALSE
    /\ error = Null
    /\ recognitionRef = 0
    /\ isRecordingRef = FALSE
    /\ supported \in BOOLEAN
    /\ handles = 0
    /\ attached = [h \in 1..MaxHandles |-> FALSE]
    /\ platform = [h \in 1..MaxHandles |-> "inactive"]
    /\ lastEvent = NoEvent

\* ---------------------------------------------------------------- chat page
\* The flag after the passive effects in queue q have run in order.
RECURSIVE RunAll(_, _)
RunAll(q, ref) == IF q = <<>> THEN ref ELSE RunAll(Tail(q), Head(q))

\* A React event handler has changed state other than the chat page's own:
\* React renders before the event ends, and pending passive effects run
\* before that render.
FlushEffects ==
    /\ loadingRef' = RunAll(pendingEffects, loadingRef)
    /\ pendingEffects' = <<>>
    /\ UNCHANGED <<messages, input, loading, loadingRendered, sessionId, isOpen, requests, inflight>>

\* sendMessage testing the raw text, not the trimmed text, for emptiness.
sendMessageRawGuard(messageText, inReactEvent) ==
    LET trimmed == trim(messageText) IN
    /\ lastEvent' = Event("sendMessage", messageText)
    /\ IF messageText = <<>> \/ loadingRef
       THEN UNCHANGED pageVars
       ELSE /\ Len(requests) < MaxCalls
            /\ input' = <<>>
            /\ messages' = appendMessage(messages, "user", trimmed)
            /\ loadingRef' = TRUE
            /\ loading' = TRUE
            /\ requests' = Append(requests, [message |-> trimmed, session_id |-> sessionId])
            /\ inflight' = inflight \cup {Len(requests) + 1}
            /\ loadingRendered' = IF inReactEvent THEN TRUE ELSE loadingRendered
            /\ pendingEffects' = IF inReactEvent THEN <<>> ELSE pendingEffects
            /\ UNCHANGED <<sessionId, isOpen>>

\* sendMessage up to its await: guard, user entry, flag, POST. Called from a
\* React event handler (inReactEvent) its state updates are rendered before
\* the event ends: pending passive effects run, loading = true is committed
\* and the effect of that render runs, which leaves the flag raised. Called
\* from a SpeechRecognition callback the render comes later (Render).
sendMessage(messageText, inReactEvent) ==
    LET trimmed == trim(messageText) IN
    /\ lastEvent' = Event("sendMessage", messageText)
    /\ IF trimmed = <<>> \/ loadingRef
       THEN UNCHANGED pageVars
       ELSE /\ Len(requests) < MaxCalls
            /\ input' = <<>>
            /\ messages' = appendMessage(messages, "user", trimmed)
            /\ loadingRef' = TRUE
            /\ loading' = TRUE
            /\ requests' = Append(requests, [message |-> trimmed, session_id |-> sessionId])
            /\ inflight' = inflight \cup {Len(requests) + 1}
            /\ loadingRendered' = IF inReactEvent THEN TRUE ELSE loadingRendered
            /\ pendingEffects' = IF inReactEvent THEN <<>> ELSE pendingEffects
            /\ UNCHANGED <<sessionId, isOpen>>

\* The input field's onChange; the field is disabled while loading is rendered.
\* The new input is rendered before the event ends, and pending passive
\* effects run before that render.
onChange(t) ==
    /\ ~loadingRendered
    /\ input' = t
    /\ loadingRef' = RunAll(pendingEffects, loadingRef)
    /\ pendingEffects' = <<>>
    /\ lastEvent' = NoEvent
    /\ UNCHANGED <<messages, loading, loadingRendered, sessionId, isOpen, requests, inflight>>
    /\ UNCHANGED voiceVars

\* Enter in the input field or a click on Send, both disabled while loading
\* is rendered.
handleSend ==
    /\ ~loadingRendered
    /\ sendMessage(input, TRUE)
    /\ UNCHANGED voiceVars

\* The POST of request i resolves with body data: the rest of the try block
\* and the finally block.
Resolve(i, data) ==
    /\ i \in inflight
    /\ messages' = Append(messages, [role |-> "assistant",
                                     content |-> data.response,
                                     sources |-> data.sources])
    /\ loadingRef' = FALSE
    /\ loading' = FALSE
    /\ inflight' = inflight \ {i}
    /\ lastEvent' = NoEvent
    /\ UNCHANGED <<input, loadingRendered, pendingEffects, sessionId, isOpen, requests>>
    /\ UNCHANGED voiceVars

\* The catch of sendMessage appending nothing to the transcript.
RejectNoFallback(i) ==
    /\ i \in inflight
    /\ messages' = messages
    /\ loadingRef' = FALSE
    /\ loading' = FALSE
    /\ inflight' = inflight \ {i}
    /\ lastEvent' = NoEvent
    /\ UNCHANGED <<input, loadingRendered, pendingEffects, sessionId, isOpen, requests>>
    /\ UNCHANGED voiceVars

\* The POST of request i rejects (network error, non-2xx status), or resolves
\* with a null body so that response.response throws: catch and finally.
Reject(i) ==
    /\ i \in inflight
    /\ messages' = appendMessage(messages, "assistant", FallbackText)
    /\ loadingRef' = FALSE
    /\ loading' = FALSE
    /\ inflight' = inflight \ {i}
    /\ lastEvent' = NoEvent
    /\ UNCHANGED <<input, loadingRendered, pendingEffects, sessionId, isOpen, requests>>
    /\ UNCHANGED voiceVars

\* React commits, outside a React event, a render in which loading has
\* changed: effects still pending run first, then the effect with deps
\* [loading] is scheduled to run later.
Render ==
    /\ loading # loadingRendered
    /\ loadingRef' = RunAll(pendingEffects, loadingRef)
    /\ loadingRendered' = loading
    /\ pendingEffects' = <<loading>>
    /\ lastEvent' = NoEvent
    /\ UNCHANGED <<messages, input, loading, sessionId, isOpen, requests, inflight>>
    /\ UNCHANGED voiceVars

\* useEffect(() => { loadingRef.current = loading }, [loading])
RunEffect ==
    /\ pendingEffects # <<>>
    /\ loadingRef' = Head(pendingEffects)
    /\ pendingEffects' = Tail(pendingEffects)
    /\ lastEvent' = NoEvent
    /\ UNCHANGED <<messages, input, loading, loadingRendered, sessionId, isOpen, requests, inflight>>
    /\ UNCHANGED voiceVars

\* ---------------------------------------------------------------- useVoiceChat
UnsupportedMessage == <<"Speech recognition is not supported in this browser">>

StartFailedMessage == <<"Failed to start speech recognition">>

StoppedMessage == <<"Speech recognition stopped unexpectedly">>

\* event.error of a SpeechRecognition error event; Undefined when absent.
ErrorReasons == {Undefined, <<"no-speech">>}

ErrorMessage(reason) ==
    IF reason # Undefined
    THEN <<"Speech recognition error: ">> \o reason
    ELSE <<"Speech recognition error">>

\* One result of a result event: final or interim, with its transcript.
ResultItem(isFinal, transcript) == [isFinal |-> isFinal, transcript |-> transcript]

\* event.results from event.resultIndex on, for the result events fired.
ResultLists ==
    {<<ResultItem(TRUE, <<"a">>)>>,
     <<ResultItem(TRUE, <<" ">>)>>,
     <<ResultItem(FALSE, <<"a">>)>>,
     <<ResultItem(FALSE, <<"a">>), ResultItem(TRUE, <<"a">>)>>,
     <<ResultItem(TRUE, <<" ">>), ResultItem(TRUE, <<"a">>)>>}

\* The loop of onresult: the transcripts of the final results, concatenated.
RECURSIVE finalTextOf(_)
finalTextOf(results) ==
    IF results = <<>> THEN <<>>
    ELSE (IF Head(results).isFinal THEN Head(results).transcript ELSE <<>>)
         \o finalTextOf(Tail(results))

\* recognition.stop() as the browser sees it.
PlatformStop(p) == IF p \in {"starting", "listening"} THEN "ending" ELSE p

\* stop() leaving the four callbacks of the object set.
stopKeepCallbacks ==
    /\ isRecordingRef' = FALSE
    /\ isRecording' = FALSE
    /\ status' = "idle"
    /\ recognitionRef' = 0
    /\ IF recognitionRef # 0
       THEN /\ platform' = [platform EXCEPT ![recognitionRef] = PlatformStop(@)]
            /\ UNCHANGED attached
       ELSE UNCHANGED <<attached, platform>>
    /\ lastEvent' = NoEvent
    /\ UNCHANGED <<error, supported, handles>>
    /\ IF isRecording \/ status # "idle" THEN FlushEffects ELSE UNCHANGED pageVars

\* stop() without its setStatus('idle').
stopKeepStatus ==
    /\ isRecordingRef' = FALSE
    /\ isRecording' = FALSE
    /\ UNCHANGED status
    /\ recognitionRef' = 0
    /\ IF recognitionRef # 0
       THEN /\ attached' = [attached EXCEPT ![recognitionRef] = FALSE]
            /\ platform' = [platform EXCEPT ![recognitionRef] = PlatformStop(@)]
       ELSE UNCHANGED <<attached, platform>>
    /\ lastEvent' = NoEvent
    /\ UNCHANGED <<error, supported, handles>>
    /\ IF isRecording \/ status # "idle" THEN FlushEffects ELSE UNCHANGED pageVars

\* stop() without its recognitionRef.current = null.
stopKeepHandle ==
    /\ isRecordingRef' = FALSE
    /\ isRecording' = FALSE
    /\ status' = "idle"
    /\ UNCHANGED recognitionRef
    /\ IF recognitionRef # 0
       THEN /\ attached' = [attached EXCEPT ![recognitionRef] = FALSE]
            /\ platform' = [platform EXCEPT ![recognitionRef] = PlatformStop(@)]
       ELSE UNCHANGED <<attached, platform>>
    /\ lastEvent' = NoEvent
    /\ UNCHANGED <<error, supported, handles>>
    /\ IF isRecording \/ status # "idle" THEN FlushEffects ELSE UNCHANGED pageVars

\* stop(), called from the click on the voice button, from the widget's close
\* effect and on unmount.
stop ==
    /\ isRecordingRef' = FALSE
    /\ isRecording' = FALSE
    /\ status' = "idle"
    /\ recognitionRef' = 0
    /\ IF recognitionRef # 0
       THEN /\ attached' = [attached EXCEPT ![recognitionRef] = FALSE]
            /\ platform' = [platform EXCEPT ![recognitionRef] = PlatformStop(@)]
       ELSE UNCHANGED <<attached, platform>>
    /\ lastEvent' = NoEvent
    /\ UNCHANGED <<error, supported, handles>>
    /\ IF isRecording \/ status # "idle" THEN FlushEffects ELSE UNCHANGED pageVars

\* The cleanup of the hook's effect, run when the owning component unmounts.
teardown == stop

\* start() testing isRecordingRef only, not recognitionRef.
startIntentGuardOnly(started) ==
    /\ lastEvent' = NoEvent
    /\ IF isRecordingRef
       THEN UNCHANGED <<pageVars, voiceVars>>
       ELSE IF ~supported
       THEN /\ error' = UnsupportedMessage
            /\ status' = "error"
            /\ UNCHANGED <<isRecording, recognitionRef, isRecordingRef, supported,
                           handles, attached, platform>>
            /\ FlushEffects
       ELSE /\ handles < MaxHandles
            /\ handles' = handles + 1
            /\ attached' = [attached EXCEPT ![handles + 1] = TRUE]
            /\ UNCHANGED supported
            /\ FlushEffects
            /\ IF started
               THEN /\ error' = Null
                    /\ status' = "connecting"
                    /\ isRecording' = TRUE
                    /\ isRecordingRef' = TRUE
                    /\ recognitionRef' = handles + 1
                    /\ platform' = [platform EXCEPT ![handles + 1] = "starting"]
               ELSE /\ error' = StartFailedMessage
                    /\ status' = "error"
                    /\ isRecordingRef' = FALSE
                    /\ isRecording' = FALSE
                    /\ recognitionRef' = 0
                    /\ UNCHANGED platform

\* start() without its setError(null).
startKeepError(started) ==
    /\ lastEvent' = NoEvent
    /\ IF recognitionRef # 0 \/ isRecordingRef
       THEN UNCHANGED <<pageVars, voiceVars>>
       ELSE IF ~supported
       THEN /\ error' = UnsupportedMessage
            /\ status' = "error"
            /\ UNCHANGED <<isRecording, recognitionRef, isRecordingRef, supported,
                           handles, attached, platform>>
            /\ FlushEffects
       ELSE /\ handles < MaxHandles
            /\ handles' = handles + 1
            /\ attached' = [attached EXCEPT ![handles + 1] = TRUE]
            /\ UNCHANGED supported
            /\ FlushEffects
            /\ IF started
               THEN /\ UNCHANGED error
                    /\ status' = "connecting"
                    /\ isRecording' = TRUE
                    /\ isRecordingRef' = TRUE
                    /\ recognitionRef' = handles + 1
                    /\ platform' = [platform EXCEPT ![handles + 1] = "starting"]
               ELSE /\ error' = StartFailedMessage
                    /\ status' = "error"
                    /\ isRecordingRef' = FALSE
                    /\ isRecording' = FALSE
                    /\ recognitionRef' = 0
                    /\ UNCHANGED platform

\* start() setting the listening intent before it finds the capability missing.
startUnsupportedBlocks(started) ==
    /\ lastEvent' = NoEvent
    /\ IF recognitionRef # 0 \/ isRecordingRef
       THEN UNCHANGED <<pageVars, voiceVars>>
       ELSE IF ~supported
       THEN /\ error' = UnsupportedMessage
            /\ status' = "error"
            /\ isRecordingRef' = TRUE
            /\ UNCHANGED <<isRecording, recognitionRef, supported,
                           handles, attached, platform>>
            /\ FlushEffects
       ELSE /\ handles < MaxHandles
            /\ handles' = handles + 1
            /\ attached' = [attached EXCEPT ![handles + 1] = TRUE]
            /\ UNCHANGED supported
            /\ FlushEffects
            /\ IF started
               THEN /\ error' = Null
                    /\ status' = "connecting"
                    /\ isRecording' = TRUE
                    /\ isRecordingRef' = TRUE
                    /\ recognitionRef' = handles + 1
                    /\ platform' = [platform EXCEPT ![handles + 1] = "starting"]
               ELSE /\ error' = StartFailedMessage
                    /\ status' = "error"
                    /\ isRecordingRef' = FALSE
                    /\ isRecording' = FALSE
                    /\ recognitionRef' = 0
                    /\ UNCHANGED platform

\* start() whose catch leaves the object in recognitionRef.
startCatchKeepsHandle(started) ==
    /\ lastEvent' = NoEvent
    /\ IF recognitionRef # 0 \/ isRecordingRef
       THEN UNCHANGED <<pageVars, voiceVars>>
       ELSE IF ~supported
       THEN /\ error' = UnsupportedMessage
            /\ status' = "error"
            /\ UNCHANGED <<isRecording, recognitionRef, isRecordingRef, supported,
                           handles, attached, platform>>
            /\ FlushEffects
       ELSE /\ handles < MaxHandles
            /\ handles' = handles + 1
            /\ attached' = [attached EXCEPT ![handles + 1] = TRUE]
            /\ UNCHANGED supported
            /\ FlushEffects
            /\ IF started
               THEN /\ error' = Null
                    /\ status' = "connecting"
                    /\ isRecording' = TRUE
                    /\ isRecordingRef' = TRUE
                    /\ recognitionRef' = handles + 1
                    /\ platform' = [platform EXCEPT ![handles + 1] = "starting"]
               ELSE /\ error' = StartFailedMessage
                    /\ status' = "error"
                    /\ isRecordingRef' = FALSE
                    /\ isRecording' = FALSE
                    /\ recognitionRef' = handles + 1
                    /\ UNCHANGED platform

\* start(), called from the click on the voice button; started tells whether
\* recognition.start() returned or threw.
start(started) ==
    /\ lastEvent' = NoEvent
    /\ IF recognitionRef # 0 \/ isRecordingRef
       THEN UNCHANGED <<pageVars, voiceVars>>
       ELSE IF ~supported
       THEN /\ error' = UnsupportedMessage
            /\ status' = "error"
            /\ UNCHANGED <<isRecording, recognitionRef, isRecordingRef, supported,
                           handles, attached, platform>>
            /\ FlushEffects
       ELSE /\ handles < MaxHandles
            /\ handles' = handles + 1
            /\ attached' = [attached EXCEPT ![handles + 1] = TRUE]
            /\ UNCHANGED supported
            /\ FlushEffects
            /\ IF started
               THEN /\ error' = Null
                    /\ status' = "connecting"
                    /\ isRecording' = TRUE
                    /\ isRecordingRef' = TRUE
                    /\ recognitionRef' = handles + 1
                    /\ platform' = [platform EXCEPT ![handles + 1] = "starting"]
               ELSE /\ error' = StartFailedMessage
                    /\ status' = "error"
                    /\ isRecordingRef' = FALSE
                    /\ isRecording' = FALSE
                    /\ recognitionRef' = 0
                    /\ UNCHANGED platform

\* recognition.onstart
onstart ==
    /\ status' = "ready"
    /\ UNCHANGED <<isRecording, error, recognitionRef, isRecordingRef>>

\* onerror leaving the listening intent set.
onerrorKeepIntent(reason) ==
    /\ error' = ErrorMessage(reason)
    /\ status' = "error"
    /\ UNCHANGED <<isRecording, recognitionRef, isRecordingRef>>

\* onerror setting the status without the message.
onerrorNoMessage(reason) ==
    /\ error' = error
    /\ status' = "error"
    /\ isRecordingRef' = FALSE
    /\ isRecording' = FALSE
    /\ UNCHANGED recognitionRef

\* recognition.onerror
onerror(reason) ==
    /\ error' = ErrorMessage(reason)
    /\ status' = "error"
    /\ isRecordingRef' = FALSE
    /\ isRecording' = FALSE
    /\ UNCHANGED recognitionRef

\* onend restarting recognition whatever isRecordingRef says.
onendAlwaysRestart(h, restarted) ==
    IF restarted
    THEN /\ status' = "connecting"
         /\ platform' = [platform EXCEPT ![h] = "starting"]
         /\ UNCHANGED <<isRecording, error, recognitionRef, isRecordingRef>>
    ELSE /\ error' = StoppedMessage
         /\ status' = "error"
         /\ isRecordingRef' = FALSE
         /\ isRecording' = FALSE
         /\ platform' = [platform EXCEPT ![h] = "ending"]
         /\ UNCHANGED recognitionRef

\* onend that never restarts recognition.
onendNoRestart(h, restarted) ==
    /\ status' = "idle"
    /\ platform' = [platform EXCEPT ![h] = "inactive"]
    /\ UNCHANGED <<isRecording, error, recognitionRef, isRecordingRef>>

\* onend leaving the listening intent set when the restart fails.
onendKeepIntent(h, restarted) ==
    IF isRecordingRef
    THEN IF restarted
         THEN /\ status' = "connecting"
              /\ platform' = [platform EXCEPT ![h] = "starting"]
              /\ UNCHANGED <<isRecording, error, recognitionRef, isRecordingRef>>
         ELSE /\ error' = StoppedMessage
              /\ status' = "error"
              /\ platform' = [platform EXCEPT ![h] = "ending"]
              /\ UNCHANGED <<isRecording, recognitionRef, isRecordingRef>>
    ELSE /\ status' = "idle"
         /\ platform' = [platform EXCEPT ![h] = "inactive"]
         /\ UNCHANGED <<isRecording, error, recognitionRef, isRecordingRef>>

\* recognition.onend of object h; restarted tells whether recognition.start()
\* returned or threw. It throws when the browser still holds a session of the
\* object, whose end is then still to come.
onend(h, restarted) ==
    IF isRecordingRef
    THEN IF restarted
         THEN /\ status' = "connecting"
              /\ platform' = [platform EXCEPT ![h] = "starting"]
              /\ UNCHANGED <<isRecording, error, recognitionRef, isRecordingRef>>
         ELSE /\ error' = StoppedMessage
              /\ status' = "error"
              /\ isRecordingRef' = FALSE
              /\ isRecording' = FALSE
              /\ platform' = [platform EXCEPT ![h] = "ending"]
              /\ UNCHANGED recognitionRef
    ELSE /\ status' = "idle"
         /\ platform' = [platform EXCEPT ![h] = "inactive"]
         /\ UNCHANGED <<isRecording, error, recognitionRef, isRecordingRef>>

\* onresult writing the utterance into the transcript itself instead of
\* handing it to sendMessage.
onresultAppendsDirectly(results) ==
    LET finalText == trim(finalTextOf(results)) IN
    /\ lastEvent' = NoEvent
    /\ messages' = IF finalText # <<>>
                   THEN appendMessage(messages, "user", finalText)
                   ELSE messages
    /\ UNCHANGED <<input, loading, loadingRendered, pendingEffects, loadingRef,
                   sessionId, isOpen, requests, inflight>>

\* recognition.onresult, with onTranscription wired to sendMessage.
onresult(results) ==
    LET finalText == trim(finalTextOf(results)) IN
    IF finalText # <<>>
    THEN sendMessage(finalText, FALSE)
    ELSE /\ lastEvent' = NoEvent
         /\ UNCHANGED pageVars

\* A signal of a SpeechRecognition object whose callbacks have been set to null.
Detached ==
    /\ lastEvent' = NoEvent
    /\ UNCHANGED <<status, isRecording, error, recognitionRef, isRecordingRef>>
    /\ UNCHANGED pageVars

\* The browser fires start on object h.
Started(h) ==
    /\ h \in 1..handles
    /\ platform[h] = "starting"
    /\ platform' = [platform EXCEPT ![h] = "listening"]
    /\ IF attached[h]
       THEN onstart /\ lastEvent' = NoEvent /\ UNCHANGED pageVars
       ELSE Detached
    /\ UNCHANGED <<supported, handles, attached>>

\* The browser fires error on object h; the session then ends.
Errored(h, reason) ==
    /\ h \in 1..handles
    /\ platform[h] \in {"starting", "listening"}
    /\ platform' = [platform EXCEPT ![h] = "ending"]
    /\ IF attached[h]
       THEN onerror(reason) /\ lastEvent' = NoEvent /\ UNCHANGED pageVars
       ELSE Detached
    /\ UNCHANGED <<supported, handles, attached>>

\* The browser fires end on object h.
Ended(h, restarted) ==
    /\ h \in 1..handles
    /\ platform[h] \in {"starting", "listening", "ending"}
    /\ IF attached[h]
       THEN onend(h, restarted) /\ lastEvent' = NoEvent /\ UNCHANGED pageVars
       ELSE /\ Detached
            /\ platform' = [platform EXCEPT ![h] = "inactive"]
    /\ UNCHANGED <<supported, handles, attached>>

\* The browser fires result on object h.
Result(h, results) ==
    /\ h \in 1..handles
    /\ platform[h] \in {"listening", "ending"}
    /\ IF attached[h]
       THEN onresult(results) /\ UNCHANGED <<status, isRecording, error, recognitionRef, isRecordingRef>>
       ELSE Detached
    /\ UNCHANGED <<supported, handles, attached, platform>>

Next ==
    \/ \E t \in Texts : onChange(t)
    \/ handleSend
    \/ \E i \in 1..MaxCalls, data \in Payloads : Resolve(i, data)
    \/ \E i \in 1..MaxCalls : Reject(i)
    \/ Render
    \/ RunEffect
    \/ \E started \in BOOLEAN : start(started)
    \/ stop
    \/ \E h \in 1..MaxHandles : Started(h)
    \/ \E h \in 1..MaxHandles, reason \in ErrorReasons : Errored(h, reason)
    \/ \E h \in 1..MaxHandles, restarted \in BOOLEAN : Ended(h, restarted)
    \/ \E h \in 1..MaxHandles, results \in ResultLists : Result(h, results)

Spec == Init /\ [][Next]_vars

\* The click on the voice button: onClick={voiceActive ? stopVoice : startVoice},
\* voiceActive being status ready or connecting.
toggle(started) ==
    IF status \in {"ready", "connecting"}
    THEN stop
    ELSE start(started)

\* ---------------------------------------------------------------- the hook on its own
\* useVoiceChat and the browser's signals, with the chat page doing nothing
\* but receive onTranscription: the page's own handlers leave the hook's
\* state alone.
\* The result events fired on the hook on its own: those of ResultLists, and
\* one event that carries two finalized utterances.
VoiceResultLists ==
    ResultLists \cup {<<ResultItem(TRUE, <<"a">>), ResultItem(TRUE, <<"a">>)>>}

VoiceNext ==
    \/ \E started \in BOOLEAN : start(started)
    \/ stop
    \/ \E h \in 1..MaxHandles : Started(h)
    \/ \E h \in 1..MaxHandles, reason \in ErrorReasons : Errored(h, reason)
    \/ \E h \in 1..MaxHandles, restarted \in BOOLEAN : Ended(h, restarted)
    \/ \E h \in 1..MaxHandles, results \in VoiceResultLists : Result(h, results)

VoiceSpec == Init /\ [][VoiceNext]_vars

\* ---------------------------------------------------------------- assistant notes
\* The else branch of onTranscription: a transcript entry from the assistant
\* side, outside the request/response cycle. useVoiceChat itself calls
\* onTranscription with 'user' only, so this branch is exercised on its own,
\* on the transcripts below.
NoteTexts == {<<"n">>, <<"m">>}

\* The user entry of a submission made before a note arrives.
NoteUserEntry == [role |-> "user", content |-> <<"n">>, sources |-> Undefined]

\* Entries a transcript can hold when a note arrives: a user entry, earlier
\* notes, and a backend reply with the text of a note.
NoteEntries ==
    {[role |-> "user", content |-> <<"n">>, sources |-> Undefined],
     [role |-> "assistant", content |-> <<"n">>, sources |-> Undefined],
     [role |-> "assistant", content |-> <<"m">>, sources |-> Undefined],
     [role |-> "assistant", content |-> <<"n">>, sources |-> <<"s">>]}

NoteTranscripts ==
    {<<[role |-> "assistant", content |-> Greeting, sources |-> Undefined]>> \o t :
        t \in UNION {[1..k -> NoteEntries] : k \in 0..MaxPrior}}

NoteInit ==
    /\ messages \in NoteTranscripts
    /\ input = <<>>
    /\ sessionId \in SessionIds
    /\ isOpen = TRUE
    /\ pendingEffects = <<>>
    /\ \E outstanding \in BOOLEAN :
          /\ outstanding => \E k \in 1..Len(messages) : messages[k] = NoteUserEntry
          /\ loading = outstanding
          /\ loadingRendered = outstanding
          /\ loadingRef = outstanding
          /\ requests = IF outstanding
                        THEN <<[message |-> NoteUserEntry.content, session_id |-> sessionId]>>
                        ELSE <<>>
          /\ inflight = IF outstanding THEN {1} ELSE {}
    /\ status = "idle"
    /\ isRecording = FALSE
    /\ error = Null
    /\ recognitionRef = 0
    /\ isRecordingRef = FALSE
    /\ supported \in BOOLEAN
    /\ handles = 0
    /\ attached = [h \in 1..MaxHandles |-> FALSE]
    /\ platform = [h \in 1..MaxHandles |-> "inactive"]
    /\ lastEvent = NoEvent

\* A note dropped while loadingRef is set, as a submission is.
appendAssistantNoteGuarded(text) ==
    /\ messages' = IF loadingRef THEN messages ELSE appendMessage(messages, "assistant", text)
    /\ Len(messages') <= MaxTranscript
    /\ lastEvent' = Event("appendAssistantNote", text)
    /\ UNCHANGED <<input, loading, loadingRendered, pendingEffects, loadingRef,
                   sessionId, isOpen, requests, inflight>>
    /\ UNCHANGED voiceVars

\* onTranscription('assistant', text)
appendAssistantNote(text) ==
    /\ messages' = appendMessage(messages, "assistant", text)
    /\ Len(messages') <= MaxTranscript
    /\ lastEvent' = Event("appendAssistantNote", text)
    /\ UNCHANGED <<input, loading, loadingRendered, pendingEffects, loadingRef,
                   sessionId, isOpen, requests, inflight>>
    /\ UNCHANGED voiceVars

NoteNext == \E text \in NoteTexts : appendAssistantNote(text)

NoteSpec == NoteInit /\ [][NoteNext]_vars

\* ---------------------------------------------------------------- chat widget
\* ChatbotWidget has the chat page's state and wiring and, on top of them,
\* isOpen: the panel with the input field and the voice button is rendered
\* only while it is open, and an effect stops the voice when it is closed.
\* The hook and the widget's open state are exercised on their own.
WidgetInit ==
    /\ messages = <<[role |-> "assistant", content |-> Greeting, sources |-> Undefined]>>
    /\ input = <<>>
    /\ loading = FALSE
    /\ loadingRendered = FALSE
    /\ pendingEffects = <<>>
    /\ loadingRef = FALSE
    /\ sessionId \in SessionIds
    /\ isOpen = FALSE
    /\ requests = <<>>
    /\ inflight = {}
    /\ status = "idle"
    /\ isRecording = FALSE
    /\ error = Null
    /\ recognitionRef = 0
    /\ isRecordingRef = FALSE
    /\ supported \in BOOLEAN
    /\ handles = 0
    /\ attached = [h \in 1..MaxHandles |-> FALSE]
    /\ platform = [h \in 1..MaxHandles |-> "inactive"]
    /\ lastEvent = NoEvent

\* The clicks on the floating button and on the X of the panel.
setIsOpen(open) ==
    /\ isOpen # open
    /\ isOpen' = open
    /\ loadingRef' = RunAll(pendingEffects, loadingRef)
    /\ pendingEffects' = <<>>
    /\ lastEvent' = NoEvent
    /\ UNCHANGED <<messages, input, loading, loadingRendered, sessionId, requests, inflight>>
    /\ UNCHANGED voiceVars

\* The close effect setting the status and leaving the handle alone.
closeEffectStopsNothing ==
    /\ ~isOpen
    /\ status \in {"ready", "connecting"}
    /\ lastEvent' = NoEvent
    /\ status' = "idle"
    /\ UNCHANGED <<isRecording, error, recognitionRef, isRecordingRef,
                   supported, handles, attached, platform>>
    /\ UNCHANGED pageVars

\* The effect with deps [isOpen, voiceStatus, stopVoice] being due: a render
\* with the widget closed and the status ready or connecting has committed.
closeEffect ==
    /\ ~isOpen
    /\ status \in {"ready", "connecting"}
    /\ stop

\* The voice button of the panel.
voiceButton(started) ==
    /\ isOpen
    /\ toggle(started)

WidgetNext ==
    \/ \E open \in BOOLEAN : setIsOpen(open)
    \/ closeEffect
    \/ \E started \in BOOLEAN : voiceButton(started)
    \/ \E h \in 1..MaxHandles : Started(h)
    \/ \E h \in 1..MaxHandles, reason \in ErrorReasons : Errored(h, reason)
    \/ \E h \in 1..MaxHandles, restarted \in BOOLEAN : Ended(h, restarted)
    \/ \E h \in 1..MaxHandles, results \in VoiceResultLists : Result(h, results)

\* React runs an effect that is due.
WidgetSpec == WidgetInit /\ [][WidgetNext]_vars /\ WF_vars(closeEffect)

\* ---------------------------------------------------------------- properties
Last(seq) == seq[Len(seq)]

IsPrefix(s, t) == Len(s) <= Len(t) /\ SubSeq(t, 1, Len(s)) = s

\* A text with nothing but white space in it.
IsBlank(t) == \A k \in 1..Len(t) : t[k] = " "

\* The text with its leading and trailing blanks removed, found by search.
Stripped(t) ==
    CHOOSE u \in {SubSeq(t, a, b) : a \in 1..(Len(t) + 1), b \in 0..Len(t)} :
        /\ \E a \in 1..(Len(t) + 1), b \in 0..Len(t) :
              /\ u = SubSeq(t, a, b)
              /\ IsBlank(SubSeq(t, 1, a - 1))
              /\ IsBlank(SubSeq(t, b + 1, Len(t)))
        /\ u = <<>> \/ (Head(u) # " " /\ Last(u) # " ")

UserEntry(content) == [role |-> "user", content |-> content, sources |-> Undefined]

FallbackEntry == [role |-> "assistant", content |-> FallbackText, sources |-> Undefined]

\* This step is a call of sendMessage.
SubmitStep == lastEvent'.op = "sendMessage"

\* This step is the POST of request i settling.
SettleStep(i) == i \in inflight /\ i \notin inflight'

\* C1: at most one backend chat request is outstanding in every reachable state.
C1_SingleFlight == Cardinality(inflight) <= 1

\* C2: a submission with a non-blank text made while no request is outstanding
\* issues exactly one backend call and appends exactly one user entry, and the
\* settling of that call appends exactly one assistant entry right after it.
C2_OneExchange ==
    [][/\ (SubmitStep /\ ~IsBlank(lastEvent'.text) /\ inflight = {})
          => /\ Len(requests') = Len(requests) + 1
             /\ messages' = Append(messages, UserEntry(Stripped(lastEvent'.text)))
       /\ \A i \in 1..MaxCalls :
            SettleStep(i)
            => /\ Last(messages) = UserEntry(requests[i].message)
               /\ Len(messages') = Len(messages) + 1
               /\ Last(messages').role = "assistant"
               /\ requests' = requests]_vars

\* C3: a submission made while a request is outstanding changes neither the
\* transcript, nor the flag, nor the backend calls issued.
C3_DroppedWhileOutstanding ==
    [][(SubmitStep /\ inflight # {})
       => UNCHANGED <<messages, loadingRef, requests, inflight>>]_vars

\* C4: once the outstanding request has settled the flag is down, so that the
\* next non-blank submission is admitted.
C4_FlagDownWhenSettled == (inflight = {}) => ~loadingRef

\* C5: a submission with an empty or blank text appends nothing, issues no
\* backend call and does not raise the flag, in any state.
C5_BlankIsNoOp ==
    [][(SubmitStep /\ IsBlank(lastEvent'.text))
       => UNCHANGED <<messages, requests, inflight, loadingRef>>]_vars

\* C5 witness: a blank, non-empty text was submitted while the flag was down.
C5_Witness ==
    /\ lastEvent = Event("sendMessage", <<" ">>)
    /\ ~loadingRef
    /\ Len(requests) < MaxCalls

\* C6: when the backend call fails the fallback entry is appended, the flag
\* is cleared and no backend call is issued.
C6_FailureAbsorbed ==
    [][(\E i \in 1..MaxCalls : Reject(i))
       => /\ messages' = Append(messages, FallbackEntry)
          /\ ~loadingRef'
          /\ requests' = requests]_vars

\* C7: a response without reply text is answered with the fallback entry, and
\* no transcript entry is built from it.
C7_MalformedIsFailure ==
    [][\A i \in 1..MaxCalls :
         Resolve(i, MalformedPayload)
         => messages' = Append(messages, FallbackEntry)]_vars

\* C8: when the call of an admitted utterance succeeds, the transcript ends
\* with the user entry of that utterance followed by the assistant entry built
\* from the reply and its sources.
C8_SuccessAppendsReply ==
    [][\A i \in 1..MaxCalls, data \in GoodPayloads :
         Resolve(i, data)
         => /\ Len(messages') >= 2
            /\ messages'[Len(messages') - 1] = UserEntry(requests[i].message)
            /\ Last(messages') = [role |-> "assistant",
                                  content |-> data.response,
                                  sources |-> data.sources]]_vars

\* C9: the assistant entry of an exchange is appended right after the user
\* entry of that exchange: while a request is outstanding the transcript ends
\* with its user entry.
C9_Contiguous ==
    \A i \in inflight : Last(messages) = UserEntry(requests[i].message)

\* C10: every step leaves the existing transcript entries and their order
\* unchanged: the transcript before a step is a prefix of the one after it.
C10_AppendOnly == [][IsPrefix(messages, messages')]_vars

\* C10 witness: a user entry and an assistant entry have been appended.
C10_Witness ==
    /\ Len(messages) >= 3
    /\ messages[2].role = "user"
    /\ messages[3].role = "assistant"

\* The user entries of a transcript, in order.
UserEntries(seq) == SelectSeq(seq, LAMBDA m : m.role = "user")

\* C11: a submission of the utterance whose backend request is still
\* outstanding appends no second user entry and issues no second backend call.
C11_DoubleDelivery ==
    [][(SubmitStep /\ \E i \in inflight : requests[i].message = Stripped(lastEvent'.text))
       => /\ UserEntries(messages') = UserEntries(messages)
          /\ requests' = requests]_vars

\* C12: a submission whose trimmed text equals the content of the user entry
\* the transcript ends with changes neither the transcript, nor the backend
\* calls issued, nor the flag.
C12_AdjacentDuplicateIsNoOp ==
    [][(SubmitStep /\ ~IsBlank(lastEvent'.text)
                   /\ Last(messages) = UserEntry(Stripped(lastEvent'.text)))
       => UNCHANGED <<messages, requests, inflight, loadingRef>>]_vars

\* C13: the backend calls issued are, one for one and in order, the user
\* entries of the transcript: each carries the trimmed text of its utterance
\* and the sessionId of the session.
C13_OneCallPerUtterance ==
    /\ Len(requests) = Len(UserEntries(messages))
    /\ \A i \in 1..Len(requests) :
         /\ requests[i].session_id = sessionId
         /\ ~IsBlank(requests[i].message)
         /\ requests[i].message = Stripped(requests[i].message)
         /\ i <= Len(UserEntries(messages))
            => requests[i].message = UserEntries(messages)[i].content

\* The entry appendAssistantNote builds.
NoteEntry(text) == [role |-> "assistant", content |-> text, sources |-> Undefined]

\* C14: appendAssistantNote(text) leaves the transcript unchanged when it ends
\* with an assistant entry of that content, and otherwise appends exactly one
\* assistant entry of that content; the second of two calls in a row with the
\* same text changes nothing.
C14_NoteGuarded ==
    [][lastEvent'.op = "appendAssistantNote"
       => /\ IF Last(messages).role = "assistant" /\ Last(messages).content = lastEvent'.text
             THEN messages' = messages
             ELSE messages' = Append(messages, NoteEntry(lastEvent'.text))
          /\ lastEvent = lastEvent' => messages' = messages]_vars

\* C14 witness: a note arrived when the transcript ended with a backend reply
\* of the same text (an entry with sources, which no note has), and was dropped.
C14_Witness ==
    /\ lastEvent.op = "appendAssistantNote"
    /\ Last(messages) = [role |-> "assistant", content |-> lastEvent.text, sources |-> <<"s">>]

\* This step is a signal of SpeechRecognition object h.
SignalStep(h) ==
    \/ Started(h)
    \/ \E reason \in ErrorReasons : Errored(h, reason)
    \/ \E restarted \in BOOLEAN : Ended(h, restarted)
    \/ \E results \in VoiceResultLists : Result(h, results)

\* Object h has had a recognition session and is no longer the hook's handle:
\* stop() has discarded it.
Discarded(h) == h \in 1..handles /\ h # recognitionRef /\ platform[h] # "inactive"

\* C15: a signal of a handle that stop() has discarded changes neither the
\* status, nor the error, nor the listening intent, and submits nothing to
\* the chat, whether or not a later start() has created a new handle.
C15_DiscardedHandleIsMute ==
    [][\A h \in 1..MaxHandles :
         (Discarded(h) /\ SignalStep(h))
         => /\ UNCHANGED <<status, error, isRecording, isRecordingRef, recognitionRef>>
            /\ UNCHANGED <<messages, requests, inflight, loadingRef>>
            /\ lastEvent'.op # "sendMessage"]_vars

\* C15 witness: stop() has discarded the first handle while its session was
\* live, its signals are still to come, and a later start() has a new handle
\* listening.
C15_Witness ==
    /\ handles = MaxHandles
    /\ recognitionRef = MaxHandles
    /\ status = "ready"
    /\ isRecordingRef
    /\ \E h \in 1..(MaxHandles - 1) : platform[h] = "ending" /\ ~attached[h]

\* C16: a started signal of the handle makes the status ready; an ended signal
\* that arrives while the hook is connecting or ready (no stop(), no error
\* since start()) makes the status connecting and starts recognition on the
\* same handle again, every time.
C16_AutoRestart ==
    [][\A h \in 1..MaxHandles :
         /\ (h = recognitionRef /\ Started(h)) => status' = "ready"
         /\ (h = recognitionRef /\ status \in {"connecting", "ready"} /\ Ended(h, TRUE))
            => /\ status' = "connecting"
               /\ platform'[h] = "starting"
               /\ isRecordingRef'
               /\ recognitionRef' = h]_vars

\* C16 witness: the first handle, never stopped, has delivered a transcript
\* (so it was listening, the status ready) and is starting again, the status
\* connecting: an ended signal has restarted it.
C16_Witness ==
    /\ handles = 1
    /\ recognitionRef = 1
    /\ requests # <<>>
    /\ status = "connecting"
    /\ platform[1] = "starting"

\* The objects on which recognition.start() takes effect in this step.
StartedNow == {h \in 1..MaxHandles : platform'[h] = "starting" /\ platform[h] # "starting"}

\* C17: recognition starts on at most one object in a step, and only in
\* start(), on the object it creates, or on an ended signal of the handle
\* received while the listening intent is set; an ended signal received while
\* the intent is cleared starts nothing.
C17_BoundedRestart ==
    [][/\ Cardinality(StartedNow) <= 1
       /\ \A h \in StartedNow :
            \/ /\ handles' = handles + 1
               /\ h = handles'
               /\ recognitionRef' = h
            \/ /\ isRecordingRef
               /\ h = recognitionRef
               /\ Ended(h, TRUE)
       /\ \A h \in 1..MaxHandles, restarted \in BOOLEAN :
            (~isRecordingRef /\ Ended(h, restarted))
            => /\ platform'[h] = "inactive"
               /\ StartedNow = {}]_vars

\* C17 witness: the handle's session has ended after a platform error had
\* cleared the intent, and was not started again.
C17_Witness ==
    /\ recognitionRef # 0
    /\ ~isRecordingRef
    /\ error = ErrorMessage(<<"no-speech">>)
    /\ status = "idle"
    /\ platform[recognitionRef] = "inactive"

\* C18: when the start requested on an ended signal fails, the status becomes
\* error, the error is set, the listening intent is cleared and recognition is
\* not started; an ended signal of that handle that arrives afterwards starts
\* nothing either.
C18_FailedRestart ==
    [][\A h \in 1..MaxHandles :
         /\ (h = recognitionRef /\ isRecordingRef /\ Ended(h, FALSE))
            => /\ status' = "error"
               /\ error' = StoppedMessage
               /\ ~isRecordingRef'
               /\ ~isRecording'
               /\ StartedNow = {}
         /\ (h = recognitionRef /\ error = StoppedMessage /\ status = "error"
                                /\ \E restarted \in BOOLEAN : Ended(h, restarted))
            => /\ StartedNow = {}
               /\ platform'[h] = "inactive"
               /\ ~isRecordingRef']_vars

\* C18 witness: the restart failed, and the session then ended once more
\* without being started again.
C18_Witness ==
    /\ recognitionRef # 0
    /\ error = StoppedMessage
    /\ status = "idle"
    /\ ~isRecordingRef
    /\ platform[recognitionRef] = "inactive"

\* C19: on an error signal of the handle the status becomes error, the error
\* is set to a message (with the platform's reason when there is one), the
\* listening intent is cleared and recognition is not started; the ended
\* signal that follows the error starts nothing either.
C19_PlatformError ==
    [][\A h \in 1..MaxHandles :
         /\ \A reason \in ErrorReasons :
              (h = recognitionRef /\ Errored(h, reason))
              => /\ status' = "error"
                 /\ error' # Null
                 /\ error' = IF reason = Undefined
                             THEN <<"Speech recognition error">>
                             ELSE <<"Speech recognition error: ">> \o reason
                 /\ ~isRecordingRef'
                 /\ ~isRecording'
                 /\ StartedNow = {}
         /\ (h = recognitionRef /\ status = "error"
                                /\ error \in {ErrorMessage(reason) : reason \in ErrorReasons}
                                /\ \E restarted \in BOOLEAN : Ended(h, restarted))
            => /\ StartedNow = {}
               /\ platform'[h] = "inactive"
               /\ ~isRecordingRef']_vars

\* C19 witness: an error signal without a reason was received, and the ended
\* signal after it left the session ended.
C19_Witness ==
    /\ recognitionRef # 0
    /\ error = <<"Speech recognition error">>
    /\ status = "idle"
    /\ ~isRecordingRef
    /\ platform[recognitionRef] = "inactive"

\* C20: start() called while a handle exists, or while the status is
\* connecting or ready, changes neither the status, nor the error, nor the
\* listening intent, nor the handle; it creates no object and starts no
\* recognition.
C20_StartIsNoOp ==
    [][((recognitionRef # 0 \/ status \in {"connecting", "ready"})
        /\ \E started \in BOOLEAN : start(started))
       => /\ UNCHANGED <<status, error, isRecording, isRecordingRef, recognitionRef>>
          /\ UNCHANGED <<handles, attached, platform>>]_vars

\* C20 witness: the handle is still held after a platform error has cleared
\* the intent, and another object could be created.
C20_Witness ==
    /\ recognitionRef # 0
    /\ ~isRecordingRef
    /\ status = "error"
    /\ handles < MaxHandles

\* C21: a start() that finds no handle, no listening intent and the speech
\* capability present, and whose recognition.start() returns, creates one
\* object and holds it, clears the error, sets the status to connecting, sets
\* the listening intent, and starts recognition on that object and no other.
C21_StartOpensSession ==
    [][(recognitionRef = 0 /\ ~isRecordingRef /\ supported /\ start(TRUE))
       => /\ handles' = handles + 1
          /\ recognitionRef' = handles'
          /\ attached'[handles']
          /\ error' = Null
          /\ status' = "connecting"
          /\ isRecordingRef'
          /\ isRecording'
          /\ StartedNow = {handles'}]_vars

\* C21 witness: the first start() failed and set the error (its object still
\* has its callbacks), and a second start() has opened a session with the
\* error cleared.
C21_Witness ==
    /\ handles = MaxHandles
    /\ recognitionRef = handles
    /\ status = "connecting"
    /\ error = Null
    /\ \E h \in 1..(MaxHandles - 1) : attached[h] /\ platform[h] = "inactive"

\* C22: without the speech capability a start() that is not a no-op sets the
\* status to error and the error to a message, creates no object, holds no
\* handle, sets no listening intent and starts no recognition; and no start()
\* is a no-op there, so that every later start() looks for the capability
\* again.
C22_CapabilityUnavailable ==
    [][(~supported /\ \E started \in BOOLEAN : start(started))
       => /\ recognitionRef = 0 /\ ~isRecordingRef
          /\ status' = "error"
          /\ error' = UnsupportedMessage
          /\ error' # Null
          /\ handles' = handles
          /\ attached' = attached
          /\ recognitionRef' = 0
          /\ ~isRecordingRef'
          /\ ~isRecording'
          /\ StartedNow = {}]_vars

\* C22 witness: start() has found the capability missing and stop() has set
\* the status back to idle: the state a later start() is called in.
C22_Witness ==
    /\ ~supported
    /\ error = UnsupportedMessage
    /\ status = "idle"
    /\ handles = 0

\* C23: the error is set only while the status is error.
C23_ErrorOnlyInError == error # Null => status = "error"

\* C24: while the status is idle the hook holds no handle.
C24_IdleHoldsNoHandle == status = "idle" => recognitionRef = 0

\* C25: stop() called while no handle is held changes neither the status, nor
\* the error, nor the listening intent.
C25_StopIsNoOpWithoutHandle ==
    [][(recognitionRef = 0 /\ stop) => UNCHANGED <<status, error, isRecordingRef>>]_vars

\* C25, amended: stop() called while no handle is held sets the status to
\* idle and changes nothing else of the hook; called while the status is idle
\* and no handle is held it changes nothing; and every stop() ends in such a
\* state, so that a second stop() right after it changes nothing.
C25_StopIdempotent ==
    [][stop
       => /\ recognitionRef = 0
             => /\ status' = "idle"
                /\ UNCHANGED <<isRecording, error, recognitionRef, isRecordingRef,
                               supported, handles, attached, platform>>
          /\ (recognitionRef = 0 /\ status = "idle") => UNCHANGED voiceVars
          /\ recognitionRef' = 0 /\ status' = "idle"]_vars

\* C25 witness: the first recognition.start() had failed (status error, no
\* handle held), and stop() has been called since.
C25_Witness ==
    /\ error = StartFailedMessage
    /\ status = "idle"
    /\ recognitionRef = 0

\* C26: in every reachable state stop() leaves the status idle, the listening
\* intent cleared and no handle held.
C26_StopEndsIdle ==
    [][stop => /\ status' = "idle"
               /\ ~isRecordingRef'
               /\ ~isRecording'
               /\ recognitionRef' = 0]_vars

\* C26 witness: stop() was called while a session was live (status connecting
\* or ready): the session is ending, its object has no callbacks.
C26_Witness ==
    /\ status = "idle"
    /\ recognitionRef = 0
    /\ ~isRecordingRef
    /\ \E h \in 1..handles : platform[h] = "ending" /\ ~attached[h]

\* The finalized utterances of a result event that are not blank, trimmed,
\* in order.
RECURSIVE Utterances(_)
Utterances(results) ==
    IF results = <<>> THEN <<>>
    ELSE (IF Head(results).isFinal /\ ~IsBlank(Head(results).transcript)
          THEN <<Stripped(Head(results).transcript)>>
          ELSE <<>>) \o Utterances(Tail(results))

\* The number of onTranscription calls made in this step.
Invocations == IF lastEvent'.op = "sendMessage" THEN 1 ELSE 0

\* C27: a result signal of the handle, the status ready, makes one
\* onTranscription call for each of its finalized utterances that is not
\* blank, with the trimmed text of that utterance, and none for interim
\* results and blank utterances; the status is unchanged.
C27_OncePerUtterance ==
    [][\A h \in 1..MaxHandles, results \in VoiceResultLists :
         (attached[h] /\ status = "ready" /\ Result(h, results))
         => /\ Invocations = Len(Utterances(results))
            /\ Invocations = 1 => lastEvent'.text = Utterances(results)[1]
            /\ UNCHANGED status]_vars

\* C30: a result signal makes an onTranscription call only while the status
\* is ready and the listening intent is set.
C30_EmitsOnlyWhenReady ==
    [][\A h \in 1..MaxHandles, results \in VoiceResultLists :
         (Result(h, results) /\ Invocations = 1)
         => status = "ready" /\ isRecordingRef]_vars

\* C28: teardown leaves no handle held and the listening intent cleared, and
\* no object with a session has callbacks left; while no handle is held, no
\* signal of any object changes the hook's state or submits anything to the
\* chat.
C28_TeardownIsStop ==
    [][/\ teardown
          => /\ recognitionRef' = 0
             /\ ~isRecordingRef'
             /\ ~isRecording'
             /\ status' = "idle"
             /\ \A h \in 1..handles : platform'[h] # "inactive" => ~attached'[h]
       /\ \A h \in 1..MaxHandles :
            (recognitionRef = 0 /\ SignalStep(h))
            => /\ UNCHANGED <<status, error, isRecording, isRecordingRef, recognitionRef>>
               /\ UNCHANGED pageVars
               /\ Invocations = 0]_vars

\* C28 witness: every object the hook has created is discarded, and the
\* session of the last one, live at teardown, is still to end.
C28_Witness ==
    /\ handles = MaxHandles
    /\ recognitionRef = 0
    /\ status = "idle"
    /\ platform[MaxHandles] = "ending"
    /\ ~attached[MaxHandles]

\* C29: a submission and the settling of a backend call leave the whole state
\* of the voice hook unchanged, as does every step that changes the
\* transcript; and the transcript changes only by a submission to sendMessage,
\* which appends the user entry of its text, or by the settling of a backend
\* call, which appends one assistant entry.
C29_PipelineAndHookApart ==
    [][/\ (SubmitStep \/ \E i \in 1..MaxCalls : SettleStep(i)) => UNCHANGED voiceVars
       /\ messages' # messages => UNCHANGED voiceVars
       /\ messages' # messages
          => \/ /\ SubmitStep
                /\ messages' = Append(messages, UserEntry(Stripped(lastEvent'.text)))
             \/ /\ \E i \in 1..MaxCalls : SettleStep(i)
                /\ Len(messages') = Len(messages) + 1
                /\ Last(messages').role = "assistant"]_vars

\* C29 witness: a backend call has failed and its fallback entry is in the
\* transcript while the hook is listening, its handle held and no error set.
C29_Witness ==
    /\ Last(messages) = FallbackEntry
    /\ inflight = {}
    /\ status = "ready"
    /\ recognitionRef # 0
    /\ isRecordingRef
    /\ error = Null

\* C31: with the speech capability present and recognition.start() returning,
\* a click on the voice button in status error or idle starts a session: the
\* status becomes connecting with a handle held.
C31_ToggleRecovers ==
    [][(status \in {"error", "idle"} /\ supported /\ handles < MaxHandles /\ toggle(TRUE))
       => status' = "connecting" /\ recognitionRef' # 0 /\ isRecordingRef']_vars

\* This step runs passive effects of the page, and is neither a submission nor
\* the settling of a backend call.
EffectStep ==
    /\ pendingEffects # <<>>
    /\ pendingEffects' # pendingEffects
    /\ inflight' = inflight
    /\ requests' = requests

\* C32: a run of the effect loadingRef.current = loading does not lower the
\* flag while a backend call is outstanding, and leaves it lowered when none
\* is outstanding.
C32_EffectKeepsFlag ==
    [][EffectStep
       => /\ inflight # {} => (loadingRef => loadingRef')
          /\ inflight = {} => ~loadingRef']_vars

\* C33: whenever no backend call is outstanding the last transcript entry is an
\* assistant entry; a user entry is last only while the backend call issued
\* with its text, the latest one, is outstanding.
C33_AssistantLastWhenSettled ==
    /\ inflight = {} => Last(messages).role = "assistant"
    /\ Last(messages).role = "user"
       => /\ requests # <<>>
          /\ Len(requests) \in inflight
          /\ requests[Len(requests)].message = Last(messages).content

\* C33 witness: an exchange has completed: nothing is outstanding and the
\* assistant entry that is last follows a user entry.
C33_Witness ==
    /\ inflight = {}
    /\ requests # <<>>
    /\ Len(messages) >= 3
    /\ messages[Len(messages) - 1].role = "user"
    /\ Last(messages).role = "assistant"

\* C34: while the listening intent is set, a handle is held and the status
\* is connecting or ready.
C34_IntentImpliesHandle ==
    isRecordingRef => recognitionRef # 0 /\ status \in {"connecting", "ready"}

\* C34 witness: the intent is set again on a later object, after an earlier
\* session, and that object is listening.
C34_Witness ==
    /\ isRecordingRef
    /\ recognitionRef = MaxHandles
    /\ status = "ready"
    /\ platform[MaxHandles] = "listening"

\* C35: while the status is error, the error message is set.
C35_ErrorHasMessage == status = "error" => error # Null

\* C35 witness: the status is error on a second object, with the message of
\* one of the ways into error, after a first session that stop() discarded.
C35_Witness ==
    /\ status = "error"
    /\ error \in {StartFailedMessage, StoppedMessage}
                 \cup {ErrorMessage(reason) : reason \in ErrorReasons}
    /\ handles = MaxHandles
    /\ \E h \in 1..(MaxHandles - 1) : platform[h] = "ending" /\ ~attached[h]

\* C36: when recognition.start() throws in a start() that got past its guards,
\* the status becomes error with the start-failure message, the intent and
\* the handle are cleared and no session is started; a start() called in
\* that state gets past its guards again and creates a new object.
C36_FailedStartIsRetryable ==
    [][/\ (recognitionRef = 0 /\ ~isRecordingRef /\ supported /\ start(FALSE))
          => /\ status' = "error"
             /\ error' = StartFailedMessage
             /\ ~isRecordingRef'
             /\ ~isRecording'
             /\ recognitionRef' = 0
             /\ handles' = handles + 1
             /\ StartedNow = {}
       /\ (status = "error" /\ error = StartFailedMessage /\ recognitionRef = 0
           /\ \E started \in BOOLEAN : start(started))
          => /\ handles' = handles + 1
             /\ attached'[handles']]_vars

\* C36 witness: recognition.start() has thrown in two calls of start() in a
\* row, each of which created its own object.
C36_Witness ==
    /\ handles = MaxHandles
    /\ status = "error"
    /\ error = StartFailedMessage
    /\ recognitionRef = 0
    /\ ~isRecordingRef
    /\ \A h \in 1..MaxHandles : platform[h] = "inactive"

\* C37: every object that still has the hook's callbacks is the handle the
\* hook holds; an object the hook has discarded has none.
C37_OnlyHeldHandleAttached ==
    \A h \in 1..handles : attached[h] => h = recognitionRef

\* C38: appendAssistantNote does not look at the single-flight flag: with a
\* backend call outstanding and the flag raised it appends its entry as it
\* does otherwise; it leaves the flag, the loading state, the list of
\* backend calls and the set of outstanding ones unchanged.
C38_NoteBypassesGuard ==
    [][lastEvent'.op = "appendAssistantNote"
       => /\ UNCHANGED <<loadingRef, loading, requests, inflight>>
          /\ (Last(messages).role # "assistant" \/ Last(messages).content # lastEvent'.text)
             => messages' = Append(messages, NoteEntry(lastEvent'.text))]_vars

\* C38 witness: a note has been appended right after the user entry whose
\* backend call is still outstanding, the flag raised.
C38_Witness ==
    /\ lastEvent.op = "appendAssistantNote"
    /\ loadingRef
    /\ inflight = {1}
    /\ Len(messages) >= 3
    /\ messages[Len(messages) - 1] = NoteUserEntry
    /\ Last(messages) = NoteEntry(lastEvent.text)

\* C39: the close effect leaves the status idle with no handle held; while
\* the widget stays closed a status that is neither ready nor connecting
\* stays so; the status becomes connecting or ready from another one only by
\* a start() of the open widget that creates a new handle; and a widget that
\* is closed gets reopened or reaches a status neither ready nor connecting.
C39_ClosedWidgetIsSilent ==
    /\ [][/\ closeEffect => (status' = "idle" /\ recognitionRef' = 0 /\ ~isRecordingRef')
          /\ (~isOpen /\ ~isOpen' /\ status \notin {"ready", "connecting"})
             => status' \notin {"ready", "connecting"}
          /\ (status \notin {"ready", "connecting"} /\ status' \in {"ready", "connecting"})
             => /\ isOpen
                /\ recognitionRef = 0
                /\ handles' = handles + 1
                /\ recognitionRef' = handles']_vars
    /\ (~isOpen ~> (isOpen \/ status \notin {"ready", "connecting"}))

\* C39 witness: the widget is closed and the close effect has stopped a
\* session that is still to end.
C39_Witness ==
    /\ ~isOpen
    /\ status = "idle"
    /\ recognitionRef = 0
    /\ \E h \in 1..handles : platform[h] = "ending" /\ ~attached[h]

====
